---- MODULE Spec2Model ----
(***************************************************************************)
(* The interaction server of src/src/index.ts: module initialisation, the  *)
(* start() function, the verify middleware and the '/interactions' route   *)
(* handler, as a state machine.  One action is one run of JavaScript       *)
(* between two suspension points (await) of a request.                     *)
(***************************************************************************)
EXTENDS Integers, Sequences, FiniteSets, TLC

VARIABLES
    phase,          \* "module" | "starting" | "listening"
    tagCache,       \* the shared Collection<string, Tag>: tag name -> content
    mdnIndexCache,  \* the shared MDNIndexEntry[]
    mdnFetch,       \* the MDN index fetch of start(): "pending" | "ok" | "failed"
    loggedCount,    \* the entry count written by the startup log line
    reqs            \* one record per request (connection)

vars == <<phase, tagCache, mdnIndexCache, mdnFetch, loggedCount, reqs>>

(***************************************************************************)
(* Bounds.                                                                 *)
(***************************************************************************)
\* Requests in flight at once under Spec (every kind of request).
MaxRequests == 1
\* Requests in flight at once under SpecConc (signed tag traffic only).
MaxConcurrent == 2

(***************************************************************************)
(* Interaction payloads.                                                   *)
(***************************************************************************)
CommandNames ==
    {"discorddocs", "docs", "guide", "invite", "mdn", "node", "tag", "tagreload"}

CommandAutoCompleteNames == {"docs", "tag", "mdn", "guide", "discorddocs"}

\* A command name outside both closed sets.
UnknownNames == {"help"}

\* kind: message.type; ctype: message.data.type; name: message.data.name;
\* remote: the 'remote' option ("absent" when the option is not given);
\* resolvable: whether the options resolve to a docs source and query.
Payload(kind, ctype, name, remote, resolvable) ==
    [kind |-> kind, ctype |-> ctype, name |-> name, remote |-> remote,
     resolvable |-> resolvable]

PingPayloads == {Payload("Ping", "", "", "absent", TRUE)}

ChatInputPayloads ==
    {Payload("ApplicationCommand", "ChatInput", n, "absent", TRUE) :
        n \in CommandNames \cup UnknownNames}
    \cup {Payload("ApplicationCommand", "ChatInput", "docs", "absent", FALSE)}
    \cup {Payload("ApplicationCommand", "ChatInput", "tagreload", rem, TRUE) :
            rem \in {"true", "false"}}

OtherCommandPayloads ==
    {Payload("ApplicationCommand", "User", n, "absent", TRUE) :
        n \in {"tag"} \cup UnknownNames}

AutocompletePayloads ==
    {Payload("ApplicationCommandAutocomplete", "ChatInput", n, "absent", TRUE) :
        n \in CommandNames \cup UnknownNames}

OtherKindPayloads ==
    {Payload(k, "", "", "absent", TRUE) : k \in {"MessageComponent", "ModalSubmit"}}

Payloads ==
    PingPayloads \cup ChatInputPayloads \cup OtherCommandPayloads
    \cup AutocompletePayloads \cup OtherKindPayloads

NullPayload == Payload("", "", "", "absent", TRUE)

\* The request body as sent: the payload's fields in wire order.
Serialize(p) == <<p.kind, p.ctype, p.name, p.remote, p.resolvable>>

\* JSON.parse of a raw body.
ParseJson(raw) == Payload(raw[1], raw[2], raw[3], raw[4], raw[5])

(***************************************************************************)
(* Headers.  A header is absent (undefined) or a string, kept as a         *)
(* sequence of characters so that hex2bin can slice it.                    *)
(***************************************************************************)
NoHeader == [present |-> FALSE, value |-> <<>>]

Header(s) == [present |-> TRUE, value |-> s]

\* JavaScript's !h for a header: undefined and "" are falsy.
Falsy(h) == ~h.present \/ h.value = <<>>

Timestamps == {NoHeader, Header(<<>>), Header(<<"1", "7">>)}

(***************************************************************************)
(* hex2bin and parseInt(s, 16) on slices of at most two characters.        *)
(***************************************************************************)
HexDigits == <<"0", "1", "2", "3", "4", "5", "6", "7", "8", "9",
               "a", "b", "c", "d", "e", "f">>

IsHexDigit(c) == \E i \in 1..16 : HexDigits[i] = c

DigitValue(c) == (CHOOSE i \in 1..16 : HexDigits[i] = c) - 1

\* parseInt(s, 16): the longest prefix of hex digits; -1 stands for NaN.
ParseInt16(s) ==
    IF Len(s) = 0 \/ ~IsHexDigit(s[1]) THEN -1
    ELSE IF Len(s) = 1 \/ ~IsHexDigit(s[2]) THEN DigitValue(s[1])
    ELSE 16 * DigitValue(s[1]) + DigitValue(s[2])

\* Storing into a Uint8Array: NaN becomes 0, a number is taken modulo 256.
ToUint8(n) == IF n < 0 THEN 0 ELSE n % 256

\* hex.slice(from, to) with 0-based from, exclusive to.
Slice(s, from, to) ==
    SubSeq(s, from + 1, IF to > Len(s) THEN Len(s) ELSE to)

hex2bin(hex) ==
    [i \in 1..((Len(hex) + 1) \div 2) |->
        ToUint8(ParseInt16(Slice(hex, (i - 1) * 2, (i - 1) * 2 + 2)))]

\* The inverse direction, used by a client that sends a signature.
ByteToHex(b) == <<HexDigits[(b \div 16) + 1], HexDigits[(b % 16) + 1]>>

RECURSIVE BytesToHex(_)
BytesToHex(bytes) ==
    IF bytes = <<>> THEN <<>>
    ELSE ByteToHex(Head(bytes)) \o BytesToHex(Tail(bytes))

(***************************************************************************)
(* The Ed25519 check of subtle.verify, abstracted: every message has one   *)
(* signature under the fixed key, a deterministic function of the message. *)
(***************************************************************************)
KindCode(k) ==
    CASE k = "Ping" -> 1
      [] k = "ApplicationCommand" -> 2
      [] k = "MessageComponent" -> 3
      [] k = "ApplicationCommandAutocomplete" -> 4
      [] OTHER -> 5

NameCode(n) ==
    CASE n = "discorddocs" -> 1 [] n = "docs" -> 2 [] n = "guide" -> 3
      [] n = "invite" -> 4 [] n = "mdn" -> 5 [] n = "node" -> 6
      [] n = "tag" -> 7 [] n = "tagreload" -> 8 [] n = "help" -> 9
      [] OTHER -> 0

\* encoder.encode(timestamp + req.rawBody), reduced to a number.
Message(ts, rawBody) ==
    Len(ts.value) * 101 + KindCode(rawBody[1]) * 37 + NameCode(rawBody[3]) * 5
    + (IF rawBody[2] = "ChatInput" THEN 1 ELSE 0)
    + (IF rawBody[4] = "true" THEN 2 ELSE 0)
    + (IF rawBody[5] THEN 0 ELSE 3)

\* The signature the key's owner produces for a message.
Sign(msg) == <<(msg * 7) % 256>>

\* subtle.verify('NODE-ED25519', key, signature, message)
SubtleVerify(signature, msg) == signature = Sign(msg)

(***************************************************************************)
(* Signature headers a client can send for a given timestamp and body.     *)
(***************************************************************************)
\* A well-formed signature that is not the message's.
Forged(ts, rawBody) ==
    LET s == Sign(Message(ts, rawBody)) IN <<(s[1] + 1) % 256>>

\* The valid signature with the leading zero of its last byte left out
\* (an odd-length header) when that byte is below 16, with a non-hex
\* character in place of its last character otherwise.
Malformed(ts, rawBody) ==
    LET h == BytesToHex(Sign(Message(ts, rawBody))) IN
    IF h[Len(h) - 1] = "0" THEN SubSeq(h, 1, Len(h) - 2) \o <<h[Len(h)]>>
    ELSE SubSeq(h, 1, Len(h) - 1) \o <<"g">>

SignatureHeaders(ts, rawBody) ==
    {NoHeader, Header(<<>>),
     Header(BytesToHex(Sign(Message(ts, rawBody)))),
     Header(BytesToHex(Forged(ts, rawBody))),
     Header(Malformed(ts, rawBody))}

(***************************************************************************)
(* The tag sources and the MDN index.                                      *)
(***************************************************************************)
EmptyTags == [n \in {} |-> ""]

LocalTags == ("welcome" :> "Hi!") @@ ("faq" :> "See docs")

RemoteTags == ("welcome" :> "Hello!") @@ ("rules" :> "Be kind")

MdnData == <<"Array", "Promise">>

(***************************************************************************)
(* A request: the inputs it arrived with, where its processing stands, and *)
(* what has been done to its response so far.                              *)
(***************************************************************************)
NoBody == [parsed |-> FALSE, value |-> NullPayload]

\* What a tag lookup observed: the mapping, and whether a reload issued by
\* another request was in progress at that moment.
NotSeen == [looked |-> FALSE, during |-> FALSE, tags |-> EmptyTags]

IdleRequest ==
    [pc |-> "idle", sig |-> NoHeader, ts |-> NoHeader,
     rawBody |-> Serialize(NullPayload), body |-> NoBody,
     status |-> 200, written |-> <<>>, ends |-> 0, nextCalls |-> 0,
     awaiting |-> "", called |-> <<>>, trace |-> <<>>, logged |-> <<>>,
     cacheOps |-> {}, seen |-> NotSeen, reported |-> -1]

NewRequest(sig, ts, raw) ==
    [IdleRequest EXCEPT !.pc = "received", !.sig = sig, !.ts = ts,
                        !.rawBody = raw, !.trace = <<"Received">>]

\* res.end()
End(q) == [q EXCEPT !.ends = @ + 1, !.trace = Append(@, "Responded")]

\* The response writers of ./util: each writes one body and leaves the
\* connection open (the route handler ends it).
PrepareAck(q) == [q EXCEPT !.status = 200, !.written = Append(@, "ack")]

PrepareResponse(q, content) ==
    [q EXCEPT !.status = 200, !.written = Append(@, content)]

PrepareErrorResponse(q, content) ==
    [q EXCEPT !.status = 200, !.written = Append(@, content)]

\* jsonParser(): keeps the raw body and parses it into req.body.
JsonParser(q) ==
    [q EXCEPT !.body = [parsed |-> TRUE, value |-> ParseJson(q.rawBody)]]

(***************************************************************************)
(* The route handler, from its entry to its first await or its return.     *)
(***************************************************************************)
\* The statement after the if-chain and the normal return.
Finish(q) == [End(q) EXCEPT !.pc = "done", !.awaiting = ""]

\* A call the handler awaits.
Invoke(q, callee) ==
    [q EXCEPT !.pc = "awaiting", !.awaiting = callee,
              !.called = IF callee = "Doc.fetch" THEN @ ELSE Append(@, callee),
              !.trace = IF "Dispatched" \in {@[i] : i \in DOMAIN @}
                        THEN @ ELSE Append(@, "Dispatched")]

Classified(q) == [q EXCEPT !.trace = Append(@, "Classified")]

\* RoutePing without its return: the acknowledged ping falls into the
\* if-chain below it.
RoutePingFallsThrough(q) ==
    [End(PrepareResponse([End(PrepareAck(q)) EXCEPT !.logged = Append(@, "warn")],
                         "This shouldn't be there..."))
        EXCEPT !.pc = "done"]

\* message.type === InteractionType.Ping
RoutePing(q) ==
    [End(PrepareAck(q)) EXCEPT !.pc = "done"]

\* SwitchCommand with a default case that throws into the catch block.
SwitchCommandDefaultThrows(q) ==
    LET data == q.body.value IN
    CASE data.name \in {"discorddocs", "guide"} -> Invoke(q, "algoliaResponse")
      [] data.name = "docs" ->
            IF ~data.resolvable
            THEN Finish(PrepareErrorResponse(q, "Payload looks different than expected"))
            ELSE Invoke(q, "Doc.fetch")
      [] data.name = "invite" -> Finish(PrepareResponse(q, "invite link"))
      [] data.name = "mdn" -> Invoke(q, "mdnSearch")
      [] data.name = "node" -> Invoke(q, "nodeSearch")
      [] data.name = "tag" -> Invoke(q, "showTag")
      [] data.name = "tagreload" -> Invoke(q, "reloadTags")
      [] OTHER ->
            PrepareResponse([q EXCEPT !.pc = "failed",
                                      !.logged = Append(@, "error")],
                            "Looks like something went wrong here")

\* SwitchCommand with the 'node' case calling the collaborator of 'mdn'.
SwitchCommandNodeCallsMdn(q) ==
    LET data == q.body.value IN
    CASE data.name \in {"discorddocs", "guide"} -> Invoke(q, "algoliaResponse")
      [] data.name = "docs" ->
            IF ~data.resolvable
            THEN Finish(PrepareErrorResponse(q, "Payload looks different than expected"))
            ELSE Invoke(q, "Doc.fetch")
      [] data.name = "invite" -> Finish(PrepareResponse(q, "invite link"))
      [] data.name = "mdn" -> Invoke(q, "mdnSearch")
      [] data.name = "node" -> Invoke(q, "mdnSearch")
      [] data.name = "tag" -> Invoke(q, "showTag")
      [] data.name = "tagreload" -> Invoke(q, "reloadTags")
      [] OTHER -> Finish(q)

\* SwitchCommand with the 'tag' case calling the reload instead of the lookup.
SwitchCommandTagReloads(q) ==
    LET data == q.body.value IN
    CASE data.name \in {"discorddocs", "guide"} -> Invoke(q, "algoliaResponse")
      [] data.name = "docs" ->
            IF ~data.resolvable
            THEN Finish(PrepareErrorResponse(q, "Payload looks different than expected"))
            ELSE Invoke(q, "Doc.fetch")
      [] data.name = "invite" -> Finish(PrepareResponse(q, "invite link"))
      [] data.name = "mdn" -> Invoke(q, "mdnSearch")
      [] data.name = "node" -> Invoke(q, "nodeSearch")
      [] data.name = "tag" -> Invoke(q, "reloadTags")
      [] data.name = "tagreload" -> Invoke(q, "reloadTags")
      [] OTHER -> Finish(q)

\* switch (name) of a chat-input command
SwitchCommand(q) ==
    LET data == q.body.value IN
    CASE data.name \in {"discorddocs", "guide"} -> Invoke(q, "algoliaResponse")
      [] data.name = "docs" ->
            IF ~data.resolvable
            THEN Finish(PrepareErrorResponse(q, "Payload looks different than expected"))
            ELSE Invoke(q, "Doc.fetch")
      [] data.name = "invite" -> Finish(PrepareResponse(q, "invite link"))
      [] data.name = "mdn" -> Invoke(q, "mdnSearch")
      [] data.name = "node" -> Invoke(q, "nodeSearch")
      [] data.name = "tag" -> Invoke(q, "showTag")
      [] data.name = "tagreload" -> Invoke(q, "reloadTags")
      [] OTHER -> Finish(q)

\* message.type === InteractionType.ApplicationCommand
RouteCommand(q) ==
    IF q.body.value.ctype = "ChatInput" THEN SwitchCommand(q) ELSE Finish(q)

\* switch (name) of an autocomplete request
SwitchAutoComplete(q) ==
    LET data == q.body.value IN
    CASE data.name = "docs" -> Invoke(q, "djsDocsAutoComplete")
      [] data.name = "tag" -> Invoke(q, "tagAutoComplete")
      [] data.name \in {"guide", "discorddocs"} -> Invoke(q, "algoliaAutoComplete")
      [] data.name = "mdn" -> Invoke(q, "mdnAutoComplete")
      [] OTHER -> Finish(q)

\* The else branch with the log line alone: no diagnostic is written.
RouteUnknownLogsOnly(q) == Finish([q EXCEPT !.logged = Append(@, "warn")])

\* The else branch: an interaction type the server does not handle.
RouteUnknown(q) ==
    Finish(PrepareResponse([q EXCEPT !.logged = Append(@, "warn")],
                           "This shouldn't be there..."))

\* RouteHandler without the test of the autocomplete type: an autocomplete
\* request enters the command branch.
RouteHandlerAutocompleteAsCommand(q) ==
    LET message == q.body.value
        c == Classified(q)
    IN  IF message.kind = "Ping" THEN RoutePing(c)
        ELSE IF message.kind \in {"ApplicationCommand",
                                  "ApplicationCommandAutocomplete"}
             THEN RouteCommand(c)
        ELSE RouteUnknown(c)

RouteHandler(q) ==
    LET message == q.body.value
        c == Classified(q)
    IN  IF message.kind = "Ping" THEN RoutePing(c)
        ELSE IF message.kind = "ApplicationCommand" THEN RouteCommand(c)
        ELSE IF message.kind = "ApplicationCommandAutocomplete"
             THEN SwitchAutoComplete(c)
        ELSE RouteUnknown(c)

\* The catch block of the route handler.
Catch(q) ==
    PrepareResponse([q EXCEPT !.pc = "failed", !.awaiting = "",
                              !.logged = Append(@, "error")],
                    "Looks like something went wrong here")

(***************************************************************************)
(* The verify middleware.                                                  *)
(***************************************************************************)
\* res.writeHead(401); return res.end();
Reject(q) == [End([q EXCEPT !.status = 401]) EXCEPT !.pc = "rejected"]

\* Verify without the test of the timestamp header.
VerifyIgnoresTimestamp(q) ==
    IF Falsy(q.sig) THEN Reject(q) ELSE [q EXCEPT !.pc = "verifying"]

\* From entry to the await of subtle.verify.
Verify(q) ==
    IF Falsy(q.sig) THEN Reject(q)
    ELSE IF Falsy(q.sig) \/ Falsy(q.ts) THEN Reject(q)
    ELSE [q EXCEPT !.pc = "verifying"]

\* The result of the signature check for a request.
IsValid(q) == SubtleVerify(hex2bin(q.sig.value), Message(q.ts, q.rawBody))

\* VerifyFinish without the return after the 401: next() is called anyway.
VerifyFinishNoReturn(q) ==
    IF ~IsValid(q)
    THEN RouteHandler([End([q EXCEPT !.status = 401]) EXCEPT !.nextCalls = @ + 1])
    ELSE RouteHandler([q EXCEPT !.nextCalls = @ + 1,
                                !.trace = Append(@, "Authenticated")])

\* VerifyFinish with the test of isValid inverted.
VerifyFinishInverted(q) ==
    IF IsValid(q) THEN Reject(q)
    ELSE RouteHandler([q EXCEPT !.nextCalls = @ + 1])

\* From the await of subtle.verify on: 401, or next() into the route handler.
VerifyFinish(q) ==
    IF ~IsValid(q) THEN Reject(q)
    ELSE RouteHandler([q EXCEPT !.nextCalls = @ + 1,
                                !.trace = Append(@, "Authenticated")])

(***************************************************************************)
(* The collaborators, as the route handler sees them: a call that is       *)
(* awaited and either returns after writing one response or throws.        *)
(***************************************************************************)
AutoCompleteHandlers ==
    {"djsDocsAutoComplete", "tagAutoComplete", "algoliaAutoComplete",
     "mdnAutoComplete"}

TagReaders == {"showTag", "tagAutoComplete"}

\* loadTags(tagCache): fills the collection from the local source.
LoadTags(cache) == LocalTags @@ cache

\* The source a reload reads: castArgs.remote ?? false.
ReloadSource(q) ==
    IF q.body.value.remote = "true" THEN RemoteTags ELSE LocalTags

\* A reload that clears the collection before it fetches the source.
ReloadTagsBeginClears(cache) == EmptyTags

\* reloadTags, from the call to its first suspension: nothing is replaced yet.
ReloadTagsBegin(cache) == cache

\* A reload that adds the source to the entries already in the collection.
ReloadTagsCommitMerges(cache, source) == source @@ cache

\* reloadTags, at its return: the whole mapping is replaced in one step.
ReloadTagsCommit(cache, source) == source

\* The response and the observations of a collaborator that returns.
Collaborate(q, cache, reloading) ==
    LET w == [q EXCEPT !.written =
                  Append(@, IF q.awaiting \in AutoCompleteHandlers
                            THEN "suggestions" ELSE "reply")]
    IN  CASE q.awaiting \in TagReaders ->
                [w EXCEPT !.cacheOps = @ \cup {"read"},
                          !.seen = [looked |-> TRUE, during |-> reloading,
                                    tags |-> cache]]
          [] q.awaiting = "reloadTags" ->
                [w EXCEPT !.cacheOps = @ \cup {"write"},
                          !.reported = Cardinality(DOMAIN ReloadSource(q))]
          [] q.awaiting = "mdnAutoComplete" ->
                [w EXCEPT !.cacheOps = @ \cup {"mdnRead"}]
          [] OTHER -> w

\* The route handler from the return of an awaited call to its next await
\* or its return.
AfterAwait(q, cache, reloading) ==
    CASE q.awaiting = "Doc.fetch" -> Invoke(q, "djsDocs")
      [] q.awaiting = "djsDocs" -> Finish(End(Collaborate(q, cache, reloading)))
      [] OTHER -> Finish(Collaborate(q, cache, reloading))

(***************************************************************************)
(* Requests a client can send.                                             *)
(***************************************************************************)
Request(sig, ts, p) == [sig |-> sig, ts |-> ts, payload |-> p]

\* Payloads sent with every combination of headers.
ProbePayloads ==
    {Payload("Ping", "", "", "absent", TRUE),
     Payload("ApplicationCommand", "ChatInput", "tag", "absent", TRUE),
     Payload("ApplicationCommand", "ChatInput", "tagreload", "true", TRUE)}

Inputs ==
    {Request(s, t, p) : s \in UNION {SignatureHeaders(t2, Serialize(p2)) :
                                       t2 \in Timestamps, p2 \in ProbePayloads},
                        t \in Timestamps, p \in ProbePayloads}
    \cup UNION {{Request(s, t, p) : s \in SignatureHeaders(t, Serialize(p))} :
                   t \in {x \in Timestamps : ~Falsy(x)}, p \in Payloads}

TagPayloads ==
    {Payload("ApplicationCommand", "ChatInput", "tag", "absent", TRUE),
     Payload("ApplicationCommandAutocomplete", "ChatInput", "tag", "absent", TRUE),
     Payload("ApplicationCommand", "ChatInput", "tagreload", "true", TRUE),
     Payload("ApplicationCommand", "ChatInput", "tagreload", "absent", TRUE)}

\* Requests of every outcome, sent at the same time on different connections:
\* a command that is served, an unknown command, a forged signature and a
\* missing signature header.
MixedInputs ==
    LET t == Header(<<"1", "7">>)
        tag == Payload("ApplicationCommand", "ChatInput", "tag", "absent", TRUE)
        help == Payload("ApplicationCommand", "ChatInput", "help", "absent", TRUE)
    IN  {Request(Header(BytesToHex(Sign(Message(t, Serialize(tag))))), t, tag),
         Request(Header(BytesToHex(Sign(Message(t, Serialize(help))))), t, help),
         Request(Header(BytesToHex(Forged(t, Serialize(tag)))), t, tag),
         Request(NoHeader, t, tag)}

SignedTagInputs ==
    {Request(Header(BytesToHex(Sign(Message(t, Serialize(p))))), t, p) :
        t \in {x \in Timestamps : ~Falsy(x)}, p \in TagPayloads}

(***************************************************************************)
(* Actions.                                                                *)
(***************************************************************************)
Requests == DOMAIN reqs

\* Whether a reload issued by a request other than r is in progress.
ReloadInProgress(r) ==
    \E o \in Requests \ {r} : reqs[o].awaiting = "reloadTags"

\* Module initialisation with the size logged before loadTags is called.
ModuleInitLogsFirst ==
    /\ phase = "module"
    /\ loggedCount' = Cardinality(DOMAIN tagCache)
    /\ tagCache' = LoadTags(tagCache)
    /\ phase' = "starting"
    /\ UNCHANGED <<mdnIndexCache, mdnFetch, reqs>>

\* Module initialisation: the caches are created, loadTags is called, the
\* entry count is logged and start() is called.
ModuleInit ==
    /\ phase = "module"
    /\ tagCache' = LoadTags(tagCache)
    /\ loggedCount' = Cardinality(DOMAIN tagCache')
    /\ phase' = "starting"
    /\ UNCHANGED <<mdnIndexCache, mdnFetch, reqs>>

\* What the fetch of the MDN search index can give: the entries, a network
\* error, or a body that r.json() cannot parse (both caught as undefined).
MdnFetchOutcomes ==
    {[ok |-> TRUE, why |-> "", entries |-> MdnData],
     [ok |-> FALSE, why |-> "network", entries |-> <<>>],
     [ok |-> FALSE, why |-> "json", entries |-> <<>>]}

\* start() with listen() before the fetch is awaited: the index is filled
\* while requests are already served.
StartListenBeforeFetch ==
    IF phase = "starting"
    THEN /\ phase' = "listening"
         /\ UNCHANGED <<tagCache, mdnIndexCache, mdnFetch, loggedCount, reqs>>
    ELSE /\ phase = "listening"
         /\ mdnFetch = "pending"
         /\ mdnIndexCache' = mdnIndexCache \o MdnData
         /\ mdnFetch' = "ok"
         /\ UNCHANGED <<phase, tagCache, loggedCount, reqs>>

\* start() without the .catch on the fetch: a failed fetch rejects start()
\* and listen() is never called.
StartListenNoCatch ==
    /\ phase = "starting"
    /\ \E mdnData \in MdnFetchOutcomes :
          /\ mdnIndexCache' = IF mdnData.ok
                              THEN mdnIndexCache \o mdnData.entries
                              ELSE mdnIndexCache
          /\ mdnFetch' = IF mdnData.ok THEN "ok" ELSE "failed"
          /\ phase' = IF mdnData.ok THEN "listening" ELSE "rejected"
    /\ UNCHANGED <<tagCache, loggedCount, reqs>>

\* start(), from the answer of the MDN fetch to listen().
StartListen ==
    /\ phase = "starting"
    /\ \E mdnData \in MdnFetchOutcomes :
          /\ mdnIndexCache' = IF mdnData.ok
                              THEN mdnIndexCache \o mdnData.entries
                              ELSE mdnIndexCache
          /\ mdnFetch' = IF mdnData.ok THEN "ok" ELSE "failed"
    /\ phase' = "listening"
    /\ UNCHANGED <<tagCache, loggedCount, reqs>>

\* A request arrives: jsonParser runs, then verify up to its await.
Arrive(r, inp) ==
    /\ phase = "listening"
    /\ reqs[r].pc = "idle"
    /\ reqs' = [reqs EXCEPT ![r] =
                  Verify(JsonParser(NewRequest(inp.sig, inp.ts,
                                               Serialize(inp.payload))))]
    /\ UNCHANGED <<phase, tagCache, mdnIndexCache, mdnFetch, loggedCount>>

Receive(r) == \E inp \in Inputs : Arrive(r, inp)

ReceiveSigned(r) == \E inp \in SignedTagInputs : Arrive(r, inp)

ReceiveMixed(r) == \E inp \in MixedInputs : Arrive(r, inp)

\* subtle.verify has answered: verify finishes, and on success the route
\* handler runs to its first await or to its return.
VerifyResume(r) ==
    /\ reqs[r].pc = "verifying"
    /\ LET q == VerifyFinish(reqs[r]) IN
        /\ reqs' = [reqs EXCEPT ![r] = q]
        /\ tagCache' = IF q.awaiting = "reloadTags"
                       THEN ReloadTagsBegin(tagCache) ELSE tagCache
    /\ UNCHANGED <<phase, mdnIndexCache, mdnFetch, loggedCount>>

\* HandlerReturn with res kept in a variable of the module: the reply goes
\* to the connection of another request that is being processed.
HandlerReturnSharedRes(r) ==
    /\ reqs[r].pc = "awaiting"
    /\ LET after == AfterAwait(reqs[r], tagCache, ReloadInProgress(r))
           busy == {x \in Requests \ {r} : reqs[x].pc # "idle"}
           o == IF busy = {} THEN r ELSE CHOOSE x \in busy : TRUE
       IN  reqs' = [[reqs EXCEPT ![r] = [after EXCEPT !.written = reqs[r].written]]
                       EXCEPT ![o].written = @ \o SubSeq(after.written,
                                                         Len(reqs[r].written) + 1,
                                                         Len(after.written))]
    /\ tagCache' = IF reqs[r].awaiting = "reloadTags"
                   THEN ReloadTagsCommit(tagCache, ReloadSource(reqs[r]))
                   ELSE tagCache
    /\ UNCHANGED <<phase, mdnIndexCache, mdnFetch, loggedCount>>

\* An awaited call returns: the route handler goes on.
HandlerReturn(r) ==
    /\ reqs[r].pc = "awaiting"
    /\ reqs' = [reqs EXCEPT ![r] =
                  AfterAwait(reqs[r], tagCache, ReloadInProgress(r))]
    /\ tagCache' = IF reqs[r].awaiting = "reloadTags"
                   THEN ReloadTagsCommit(tagCache, ReloadSource(reqs[r]))
                   ELSE tagCache
    /\ UNCHANGED <<phase, mdnIndexCache, mdnFetch, loggedCount>>

\* An awaited call throws: the catch block runs.
HandlerThrow(r) ==
    /\ reqs[r].pc = "awaiting"
    /\ reqs' = [reqs EXCEPT ![r] = Catch(reqs[r])]
    /\ UNCHANGED <<phase, tagCache, mdnIndexCache, mdnFetch, loggedCount>>

Startup(n) ==
    /\ phase = "module"
    /\ tagCache = EmptyTags
    /\ mdnIndexCache = <<>>
    /\ mdnFetch = "pending"
    /\ loggedCount = -1
    /\ reqs = [r \in 1..n |-> IdleRequest]

Init == Startup(MaxRequests)

Next ==
    \/ ModuleInit
    \/ StartListen
    \/ \E r \in Requests : Receive(r)
    \/ \E r \in Requests : VerifyResume(r)
    \/ \E r \in Requests : HandlerReturn(r)
    \/ \E r \in Requests : HandlerThrow(r)

Spec == Init /\ [][Next]_vars

\* The server where module initialisation runs to its end and the MDN fetch
\* settles: the promise is fulfilled or rejected, it does not stay pending.
SpecLive ==
    Init /\ [][Next]_vars /\ WF_vars(ModuleInit) /\ WF_vars(StartListen)

\* The same server with more connections, receiving signed tag traffic.
InitConc == Startup(MaxConcurrent)

NextConc ==
    \/ ModuleInit
    \/ StartListen
    \/ \E r \in Requests : ReceiveSigned(r)
    \/ \E r \in Requests : VerifyResume(r)
    \/ \E r \in Requests : HandlerReturn(r)
    \/ \E r \in Requests : HandlerThrow(r)

SpecConc == InitConc /\ [][NextConc]_vars

\* The same server with more connections, receiving requests of every outcome.
NextIso ==
    \/ ModuleInit
    \/ StartListen
    \/ \E r \in Requests : ReceiveMixed(r)
    \/ \E r \in Requests : VerifyResume(r)
    \/ \E r \in Requests : HandlerReturn(r)
    \/ \E r \in Requests : HandlerThrow(r)

SpecIso == InitConc /\ [][NextIso]_vars

(***************************************************************************)
(* Vocabulary of the properties.                                           *)
(***************************************************************************)
Stages == <<"Received", "Authenticated", "Classified", "Dispatched", "Responded">>

StageIndex(s) == CHOOSE i \in 1..5 : Stages[i] = s

Reached(q, s) == \E i \in DOMAIN q.trace : q.trace[i] = s

\* The stages of a request were entered in the order of Stages.
InOrder(q) ==
    \A i, j \in DOMAIN q.trace :
        i < j => StageIndex(q.trace[i]) <= StageIndex(q.trace[j])

\* The request entered stage a, and entered it before stage b.
Before(q, a, b) ==
    \E i \in DOMAIN q.trace :
        /\ q.trace[i] = a
        /\ \A j \in DOMAIN q.trace : q.trace[j] = b => i < j

Arrived(q) == q.pc # "idle"

\* The route handler was entered for the request.
Routed(q) == q.nextCalls > 0

HandlerInvoked(q) == q.called # <<>> \/ q.awaiting # ""

Sent(q) == ParseJson(q.rawBody)

IsChatInput(q) ==
    Sent(q).kind = "ApplicationCommand" /\ Sent(q).ctype = "ChatInput"

(***************************************************************************)
(* C1: a request whose signature header or timestamp header is missing or  *)
(* empty is answered 401 by verify, its connection is ended, next() is     *)
(* never called and no handler is invoked for it.                          *)
(***************************************************************************)
C1_MissingHeaderRejected ==
    \A r \in Requests :
        LET q == reqs[r] IN
        (Arrived(q) /\ (Falsy(q.sig) \/ Falsy(q.ts))) =>
            /\ q.pc = "rejected"
            /\ q.status = 401
            /\ q.ends = 1
            /\ q.nextCalls = 0
            /\ ~HandlerInvoked(q)
            /\ q.written = <<>>

\* A rejected request that carried a signature and no timestamp.
C1_Witness ==
    \E r \in Requests :
        /\ reqs[r].pc = "rejected"
        /\ ~Falsy(reqs[r].sig)
        /\ ~reqs[r].ts.present
        /\ reqs[r].status = 401

(***************************************************************************)
(* C2: with both headers present the signature check alone decides: a      *)
(* false check gives 401, an ended connection and no next(); a true check  *)
(* gives exactly one next() and no 401.  No request has both a 401 and a   *)
(* handler invocation.                                                     *)
(***************************************************************************)
C2_CheckDecides ==
    \A r \in Requests :
        LET q == reqs[r] IN
        /\ (q.pc \notin {"idle", "verifying"} /\ ~Falsy(q.sig) /\ ~Falsy(q.ts)) =>
              IF IsValid(q)
              THEN q.nextCalls = 1 /\ q.status # 401 /\ q.pc # "rejected"
              ELSE /\ q.status = 401 /\ q.ends = 1 /\ q.nextCalls = 0
                   /\ q.pc = "rejected"
        /\ ~(q.status = 401 /\ (Routed(q) \/ HandlerInvoked(q)))

\* A validly signed request for which next() was called and a handler ran.
C2_Witness ==
    \E r \in Requests :
        /\ IsValid(reqs[r]) /\ ~Falsy(reqs[r].ts)
        /\ reqs[r].nextCalls = 1
        /\ reqs[r].called # <<>>
        /\ reqs[r].pc = "done"

(***************************************************************************)
(* C3: the body of a request is JSON-parsed only after its signature check *)
(* has completed successfully: no request has a parsed body while it is    *)
(* unauthenticated.                                                        *)
(***************************************************************************)
C3_ParsedOnlyWhenAuthenticated ==
    \A r \in Requests :
        reqs[r].body.parsed => Reached(reqs[r], "Authenticated")

(***************************************************************************)
(* C4: the stages of a request are entered in the order Received,          *)
(* Authenticated, Classified, Dispatched, Responded, and a handler is      *)
(* invoked for a request only after its signature was verified and it was  *)
(* classified.                                                             *)
(***************************************************************************)
C4_StagesInOrder ==
    \A r \in Requests :
        LET q == reqs[r] IN
        /\ InOrder(q)
        /\ (HandlerInvoked(q) \/ Reached(q, "Dispatched")) =>
              /\ IsValid(q)
              /\ Before(q, "Received", "Authenticated")
              /\ Before(q, "Authenticated", "Classified")
              /\ Before(q, "Classified", "Dispatched")
              /\ Reached(q, "Dispatched")

\* A request whose handler returned and whose response was ended.
C4_Witness ==
    \E r \in Requests :
        /\ reqs[r].called = <<"showTag">>
        /\ reqs[r].trace = Stages

(***************************************************************************)
(* C5: every authenticated request gets exactly one terminal response: on  *)
(* each path through the route handler (ping, the eight commands, the five *)
(* autocomplete commands, an unknown kind) a response is written and the   *)
(* connection is ended exactly once.  Stated for the paths that return     *)
(* without an exception.                                                   *)
(***************************************************************************)
C5_ListedPath(q) ==
    \/ Sent(q).kind \notin {"ApplicationCommand", "ApplicationCommandAutocomplete"}
    \/ IsChatInput(q) /\ Sent(q).name \in CommandNames
    \/ /\ Sent(q).kind = "ApplicationCommandAutocomplete"
       /\ Sent(q).name \in CommandAutoCompleteNames

C5_ExactlyOneResponse ==
    \A r \in Requests :
        LET q == reqs[r] IN
        (Routed(q) /\ q.pc = "done" /\ C5_ListedPath(q)) =>
            q.ends = 1 /\ Len(q.written) = 1

(***************************************************************************)
(* C6: when a collaborator throws, the catch block writes the generic      *)
(* error response and the request still has exactly one terminal response: *)
(* its connection is ended once.                                           *)
(***************************************************************************)
C6_ThrowStillEnds ==
    \A r \in Requests :
        LET q == reqs[r] IN
        q.pc = "failed" =>
            /\ q.written # <<>>
            /\ q.written[Len(q.written)] = "Looks like something went wrong here"
            /\ q.ends = 1

(***************************************************************************)
(* C7: a chat-input command whose name is not one of the eight known       *)
(* commands completes without throwing, invokes no handler, and has its    *)
(* connection ended exactly once.                                          *)
(***************************************************************************)
C7_UnknownCommandEnds ==
    \A r \in Requests :
        LET q == reqs[r] IN
        (Routed(q) /\ IsChatInput(q) /\ Sent(q).name \notin CommandNames) =>
            /\ q.pc = "done"
            /\ q.ends = 1
            /\ ~HandlerInvoked(q)
            /\ q.logged = <<>>

\* An authenticated chat-input command named 'help' that was answered.
C7_Witness ==
    \E r \in Requests :
        /\ Routed(reqs[r]) /\ IsChatInput(reqs[r])
        /\ Sent(reqs[r]).name = "help"
        /\ reqs[r].pc = "done"
        /\ reqs[r].ends = 1

(***************************************************************************)
(* C8: an ApplicationCommand whose command type is not chat-input invokes  *)
(* no handler and is answered with the visible 'Payload looks different    *)
(* than expected' error response.                                          *)
(***************************************************************************)
C8_OtherCommandTypeGetsError ==
    \A r \in Requests :
        LET q == reqs[r] IN
        (Routed(q) /\ Sent(q).kind = "ApplicationCommand"
                   /\ Sent(q).ctype # "ChatInput" /\ q.pc = "done") =>
            /\ ~HandlerInvoked(q)
            /\ q.written = <<"Payload looks different than expected">>

(***************************************************************************)
(* C9: an authenticated Ping is acknowledged, its connection is ended      *)
(* once, and the dispatch switches are not reached: no handler is invoked  *)
(* and the request neither reads nor writes the tag cache.                 *)
(***************************************************************************)
C9_PingAcknowledged ==
    \A r \in Requests :
        LET q == reqs[r] IN
        (Routed(q) /\ Sent(q).kind = "Ping") =>
            /\ q.pc = "done"
            /\ q.written = <<"ack">>
            /\ q.ends = 1
            /\ ~HandlerInvoked(q)
            /\ ~Reached(q, "Dispatched")
            /\ q.cacheOps = {}
            /\ q.logged = <<>>

\* An authenticated ping that was acknowledged.
C9_Witness ==
    \E r \in Requests :
        /\ Routed(reqs[r]) /\ Sent(reqs[r]).kind = "Ping"
        /\ reqs[r].written = <<"ack">>
        /\ reqs[r].ends = 1

(***************************************************************************)
(* C10: a tag lookup made while another request's tagreload is in progress *)
(* observes a complete mapping, the one before the reload or the one after *)
(* it: never an empty or a partly replaced mapping.                        *)
(***************************************************************************)
C10_LookupSeesCompleteMapping ==
    \A r \in Requests :
        LET q == reqs[r] IN
        (q.seen.looked /\ q.seen.during) => q.seen.tags \in {LocalTags, RemoteTags}

\* A lookup made during a reload saw the local mapping, and the reload has
\* since replaced it by the remote one.
C10_Witness ==
    \E r \in Requests :
        /\ reqs[r].seen.looked /\ reqs[r].seen.during
        /\ reqs[r].seen.tags = LocalTags
        /\ tagCache = RemoteTags

\* The collaborator the switch names for a command ("" for 'invite', which
\* is answered inline).
CommandCollaborator(n) ==
    CASE n \in {"discorddocs", "guide"} -> "algoliaResponse"
      [] n = "docs" -> "djsDocs"
      [] n = "mdn" -> "mdnSearch"
      [] n = "node" -> "nodeSearch"
      [] n = "tag" -> "showTag"
      [] n = "tagreload" -> "reloadTags"
      [] OTHER -> ""

Finished(q) == q.pc \in {"done", "failed"}

(***************************************************************************)
(* C11: for a chat-input command whose name is in the closed set, exactly  *)
(* the collaborator of that name is invoked, exactly once, and no other    *)
(* ('invite' is answered inline and has no collaborator).                  *)
(***************************************************************************)
C11_ExactlyItsCollaborator ==
    \A r \in Requests :
        LET q == reqs[r] IN
        (Routed(q) /\ IsChatInput(q) /\ Sent(q).name \in CommandNames
                   /\ Finished(q)) =>
            IF Sent(q).name = "invite"
            THEN q.called = <<>> /\ q.written = <<"invite link">>
            ELSE q.called = <<CommandCollaborator(Sent(q).name)>>

(***************************************************************************)
(* C11 as amended: no collaborator other than the one of the command's     *)
(* name is invoked, and that one at most once.  It is invoked exactly once *)
(* as soon as the command is routed, except for 'docs': djsDocs is invoked *)
(* only when the options resolve and Doc.fetch returns, and not at all     *)
(* otherwise.                                                              *)
(***************************************************************************)
C11_ItsCollaboratorAtMostOnce ==
    \A r \in Requests :
        LET q == reqs[r]
            n == Sent(q).name
        IN  (Routed(q) /\ IsChatInput(q) /\ n \in CommandNames) =>
              CASE n = "invite" ->
                      /\ q.called = <<>>
                      /\ q.written = <<"invite link">>
                      /\ q.pc = "done"
                [] n = "docs" ->
                      /\ q.called \in {<<>>, <<"djsDocs">>}
                      /\ ~Sent(q).resolvable => q.called = <<>>
                      /\ (Sent(q).resolvable /\ q.pc = "done") =>
                            q.called = <<"djsDocs">>
                      /\ q.awaiting = "Doc.fetch" => q.called = <<>>
                [] OTHER -> q.called = <<CommandCollaborator(n)>>

\* A 'docs' command whose options resolved: Doc.fetch returned, djsDocs was
\* invoked once and the handler returned.
C11_Witness ==
    \E r \in Requests :
        /\ Routed(reqs[r]) /\ IsChatInput(reqs[r])
        /\ Sent(reqs[r]).name = "docs" /\ Sent(reqs[r]).resolvable
        /\ reqs[r].called = <<"djsDocs">>
        /\ reqs[r].pc = "done"

\* The autocomplete handler the switch names for a command.
AutoCompleteCollaborator(n) ==
    CASE n = "docs" -> "djsDocsAutoComplete"
      [] n = "tag" -> "tagAutoComplete"
      [] n \in {"guide", "discorddocs"} -> "algoliaAutoComplete"
      [] n = "mdn" -> "mdnAutoComplete"
      [] OTHER -> ""

(***************************************************************************)
(* C12: an autocomplete request invokes only an autocomplete handler, the  *)
(* one of its name in {docs, tag, guide, discorddocs, mdn}; it never       *)
(* invokes a command handler (nor the tag reload), and a name outside that *)
(* set (node, invite, tagreload, ...) invokes no handler.                  *)
(***************************************************************************)
C12_AutocompleteOnlyAutocompletes ==
    \A r \in Requests :
        LET q == reqs[r]
            n == Sent(q).name
        IN  (Routed(q) /\ Sent(q).kind = "ApplicationCommandAutocomplete") =>
              /\ IF n \in CommandAutoCompleteNames
                 THEN q.called = <<AutoCompleteCollaborator(n)>>
                 ELSE q.called = <<>> /\ q.awaiting = "" /\ q.pc = "done"
              /\ q.awaiting \in AutoCompleteHandlers \cup {""}
              /\ "write" \notin q.cacheOps
              /\ q.reported = -1

\* An autocomplete request named 'tagreload' ended with no handler invoked,
\* the tag cache as the startup load left it.
C12_Witness ==
    \E r \in Requests :
        /\ Routed(reqs[r])
        /\ Sent(reqs[r]).kind = "ApplicationCommandAutocomplete"
        /\ Sent(reqs[r]).name = "tagreload"
        /\ reqs[r].pc = "done"
        /\ reqs[r].called = <<>>
        /\ tagCache = LocalTags

(***************************************************************************)
(* C13: an authenticated interaction whose kind is none of Ping,           *)
(* ApplicationCommand, ApplicationCommandAutocomplete is logged, answered  *)
(* with the fixed diagnostic, invokes no handler, and has its connection   *)
(* ended once.                                                             *)
(***************************************************************************)
C13_UnknownKindDiagnosed ==
    \A r \in Requests :
        LET q == reqs[r] IN
        (Routed(q) /\ Sent(q).kind \notin
            {"Ping", "ApplicationCommand", "ApplicationCommandAutocomplete"}) =>
            /\ q.pc = "done"
            /\ q.logged = <<"warn">>
            /\ q.written = <<"This shouldn't be there...">>
            /\ ~HandlerInvoked(q)
            /\ q.ends = 1

\* An authenticated MessageComponent interaction that got the diagnostic.
C13_Witness ==
    \E r \in Requests :
        /\ Routed(reqs[r])
        /\ Sent(reqs[r]).kind = "MessageComponent"
        /\ reqs[r].written = <<"This shouldn't be there...">>
        /\ reqs[r].logged = <<"warn">>

(***************************************************************************)
(* C14: the MDN index is populated at most once, by start() before it      *)
(* listens; once the server accepts requests no step modifies the index.   *)
(***************************************************************************)
C14_MdnIndexFilledOnceBeforeListening ==
    [][mdnIndexCache' # mdnIndexCache =>
          /\ phase = "starting"
          /\ mdnFetch = "pending"
          /\ mdnIndexCache = <<>>
          /\ mdnFetch' = "ok"]_vars

\* The index was filled, the server listens, and an 'mdn' autocomplete
\* request has been served from it.
C14_Witness ==
    /\ phase = "listening"
    /\ mdnIndexCache = MdnData
    /\ \E r \in Requests :
          /\ reqs[r].pc = "done"
          /\ "mdnRead" \in reqs[r].cacheOps

(***************************************************************************)
(* C15: the tag cache is written only by the startup load and by the       *)
(* reload of an authenticated chat-input 'tagreload' command; every other  *)
(* request leaves it as it was.                                            *)
(***************************************************************************)
IsTagReload(q) ==
    /\ Routed(q)
    /\ IsChatInput(q)
    /\ Sent(q).name = "tagreload"

C15_OnlyLoadAndReloadWrite ==
    /\ [](\A r \in Requests : "write" \in reqs[r].cacheOps => IsTagReload(reqs[r]))
    /\ [][tagCache' # tagCache =>
             \/ phase = "module"
             \/ \E r \in Requests : /\ IsTagReload(reqs[r])
                                    /\ reqs'[r] # reqs[r]
                                    /\ \A o \in Requests \ {r} : reqs'[o] = reqs[o]]_vars

\* A 'tagreload' from the remote source has replaced the startup mapping.
C15_Witness ==
    /\ tagCache = RemoteTags
    /\ \E r \in Requests :
          /\ reqs[r].pc = "done"
          /\ IsTagReload(reqs[r])
          /\ "write" \in reqs[r].cacheOps

(***************************************************************************)
(* C16: two 'tagreload' requests served one after the other from the same  *)
(* source leave the tag cache with the contents and the size that a single *)
(* reload from that source leaves: exactly the entries of the source.      *)
(***************************************************************************)
Reloaded(q) == q.pc = "done" /\ IsTagReload(q) /\ "write" \in q.cacheOps

\* The mapping a single reload from source leaves behind the startup load.
SingleReload(source) ==
    ReloadTagsCommit(ReloadTagsBegin(LoadTags(EmptyTags)), source)

C16_ReloadIdempotent ==
    \A r1, r2 \in Requests :
        (r1 # r2 /\ Reloaded(reqs[r1])) =>
            LET S == ReloadSource(reqs[r1])
                NoOtherReload(rs) ==
                    \A o \in Requests \ rs : ~IsTagReload(reqs[o])
            IN
            \* a single reload
            /\ NoOtherReload({r1}) =>
                  tagCache = S /\ SingleReload(S) = S
            \* two reloads from the same source, and no third one
            /\ (/\ Reloaded(reqs[r2])
                /\ ReloadSource(reqs[r2]) = S
                /\ NoOtherReload({r1, r2})) =>
                  /\ tagCache = S
                  /\ tagCache = SingleReload(S)
                  /\ Cardinality(DOMAIN tagCache) = Cardinality(DOMAIN S)
                  /\ reqs[r1].reported = Cardinality(DOMAIN S)
                  /\ reqs[r2].reported = Cardinality(DOMAIN S)

\* Two reloads from the remote source have both been served.
C16_Witness ==
    /\ \A r \in Requests : Reloaded(reqs[r]) /\ ReloadSource(reqs[r]) = RemoteTags
    /\ Cardinality(Requests) >= 2
    /\ tagCache = RemoteTags

(***************************************************************************)
(* C17: a request whose signature header is not valid hex (a character     *)
(* that is no hex digit, an odd or wrong length) ends as one with a        *)
(* well-formed but invalid signature does: status 401, empty body, the     *)
(* connection ended once, no handler invoked.                              *)
(***************************************************************************)
\* Two hex digits for every byte of a signature.
WellFormedHex(s) ==
    /\ Len(s) = 2 * Len(Sign(0))
    /\ \A i \in 1..Len(s) : IsHexDigit(s[i])

Verified(q) == q.pc \notin {"idle", "verifying"}

C17_MalformedHexRejected ==
    \A r \in Requests :
        LET q == reqs[r] IN
        (/\ Verified(q)
         /\ ~Falsy(q.sig)
         /\ ~Falsy(q.ts)
         /\ ~WellFormedHex(q.sig.value)) =>
            /\ q.status = 401
            /\ q.written = <<>>
            /\ q.ends = 1
            /\ ~Routed(q)
            /\ q.called = <<>>

(***************************************************************************)
(* C18: requests are accepted only once the tag load of module             *)
(* initialisation has completed: every 'tag' command and 'tag'             *)
(* autocomplete that is served sees a cache the load has filled, and the   *)
(* entry count logged at startup is the size of the loaded cache.          *)
(***************************************************************************)
LoadCompleted == phase # "module" /\ loggedCount # -1

IsMdnAutoComplete(q) ==
    /\ Routed(q)
    /\ Sent(q).kind = "ApplicationCommandAutocomplete"
    /\ Sent(q).name = "mdn"

Response(q) == <<q.pc, q.status, q.written, q.ends, q.called, q.logged>>

\* The ways the request of q can end when it is the only request.
AloneRuns(q) ==
    LET a == Verify(JsonParser(NewRequest(q.sig, q.ts, q.rawBody)))
        b == IF a.pc = "verifying" THEN VerifyFinish(a) ELSE a
        step(x) == IF x.pc = "awaiting"
                   THEN {AfterAwait(x, tagCache, FALSE), Catch(x)}
                   ELSE {x}
    IN  UNION {step(y) : y \in step(b)}

Terminal(q) == q.pc \in {"done", "failed", "rejected"}

C20_RequestsIsolated ==
    /\ [](\A r \in Requests :
            /\ reqs[r].pc = "verifying" => ENABLED VerifyResume(r)
            /\ reqs[r].pc = "awaiting" => ENABLED HandlerReturn(r)
            /\ Terminal(reqs[r]) =>
                  Response(reqs[r]) \in {Response(x) : x \in AloneRuns(reqs[r])})
    /\ [][\A r \in Requests :
            reqs'[r] # reqs[r] => \A o \in Requests \ {r} : reqs'[o] = reqs[o]]_vars

\* One request ended in the catch block and another, processed on its own
\* connection, got its own reply from its own handler.
C20_Witness ==
    \E r, o \in Requests :
        /\ r # o
        /\ reqs[o].pc = "failed"
        /\ reqs[r].pc = "done"
        /\ reqs[r].called = <<"showTag">>
        /\ reqs[r].written = <<"reply">>
        /\ reqs[r].ends = 1

====
